---- MODULE Spec2Model ----
(***************************************************************************)
(* Model of pymyquery.interval.Interval: the series merger                 *)
(* (Interval._combine_series), the parallel fetcher                        *)
(* (Interval.run_parallel / Interval.run with IntervalQuery), and the      *)
(* shared configuration (config.set against Interval.__init__).            *)
(*                                                                         *)
(* A pandas Series is a record [name, none, index, values]: index and      *)
(* values are sequences of the same length, none marks the Python None     *)
(* that Interval.data holds before a successful run.  Timestamps are       *)
(* positive integers, values are naturals, NaN stands for np.nan / None.   *)
(* A DataFrame is a record [err, index, columns, data]: data[c][r] is the  *)
(* cell of column c at row r; err names the exception raised instead of a  *)
(* table ("" when there is a table).                                       *)
(***************************************************************************)
EXTENDS Integers, Sequences, FiniteSets, TLC

\* The merger: its argument, the table after line 155, the table it returns,
\* and where the call is ("idle", "call", "returned", "raised").
VARIABLES series, filled, df, mpc
\* run_parallel: its arguments, the position of the calling thread, the
\* queries, the Interval objects, the out dict (its keys in insertion
\* order, each with the Interval it holds), the futures, what
\* concurrent.futures.wait returned as not_done, and the outcome of the call.
VARIABLES pvlist, max_workers, pc, queries, intervals, out, futures, not_done, result
\* The options the caller of run_parallel passes (**kwargs), whether the
\* caller gave max_workers, and the HTTP requests sent so far, in the order
\* they were sent, each with the response it got.
VARIABLES kwargs, given, requests
\* The shared configuration: the fields of the config singleton, the holder
\* of _lock, the thread that calls config.set, and the threads that
\* construct an Interval and build its url from config, and the threads that
\* call config.snapshot().
VARIABLES config, lock, setter, readers, snapshots

mvars == <<series, filled, df, mpc>>
pvars == <<pvlist, max_workers, pc, queries, intervals, out, futures, not_done, result,
          kwargs, given, requests>>
cvars == <<config, lock, setter, readers, snapshots>>
vars == <<series, filled, df, mpc,
          pvlist, max_workers, pc, queries, intervals, out, futures, not_done, result,
          kwargs, given, requests,
          config, lock, setter, readers, snapshots>>

\* ------------------------------------------------------------------ bounds
\* Timestamps of the enumerated inputs are 1..MaxT.
MaxT == 3
\* Events per enumerated channel sequence.
MaxLen == 3
\* Events of all the sequences of one enumerated input together.
MaxEvents == 4
\* Values of the enumerated value events (0 is a valid value, not a null).
Values == {0, 7}
\* Channel names of the enumerated inputs.
Channels == {"A", "B"}
\* Entries of the enumerated channel lists of run_parallel.
MaxPvs == 2

\* np.nan / None in a Series or DataFrame cell.
NaN == -1
\* pd.NaT, what shift(-1) leaves after the last timestamp.
NaT == -2

\* ------------------------------------------------------------ helpers
Range(f) == {f[i] : i \in DOMAIN f}
Max(S) == CHOOSE x \in S : \A y \in S : y <= x
Min(S) == CHOOSE x \in S : \A y \in S : x <= y
Count(seq, x) == Cardinality({i \in DOMAIN seq : seq[i] = x})
IsUnique(seq) == \A i, j \in DOMAIN seq : seq[i] = seq[j] => i = j
Repeat(x, n) == [i \in 1..n |-> x]
IsSorted(seq) == \A i, j \in DOMAIN seq : i < j => seq[i] <= seq[j]

NoFrame == [err |-> "none", index |-> <<>>, columns |-> <<>>, data |-> <<>>]
Raise(e) == [err |-> e, index |-> <<>>, columns |-> <<>>, data |-> <<>>]
MkSeries(n, ix, vs) == [name |-> n, none |-> FALSE, index |-> ix, values |-> vs]

\* ------------------------------------------------- pd.concat(series, axis=1)
\* Objects that are None are dropped silently by pd.concat.
NotNone(ss) == SelectSeq(ss, LAMBDA s : ~s.none)

\* The combined index of an outer join: every timestamp of any input, sorted,
\* a timestamp repeated inside one input kept with its largest multiplicity.
Multiplicity(ss, t) == Max({Count(ss[k].index, t) : k \in DOMAIN ss})

RECURSIVE SortedIndex(_, _)
SortedIndex(S, ss) ==
    IF S = {} THEN <<>>
    ELSE LET t == Min(S)
         IN  Repeat(t, Multiplicity(ss, t)) \o SortedIndex(S \ {t}, ss)

UnionIndexes(ss) == SortedIndex(UNION {Range(ss[k].index) : k \in DOMAIN ss}, ss)

\* Series.reindex: a series whose index already equals the target is kept;
\* any other series is looked up label by label, which pandas refuses when
\* the series' own index has duplicates.
CanReindex(s, idx) == s.index = idx \/ IsUnique(s.index)

\* A reindex that puts 0 where the series has no entry.
ReindexZeroFill(s, idx) ==
    IF s.index = idx THEN s.values
    ELSE [r \in DOMAIN idx |->
            IF \E i \in DOMAIN s.index : s.index[i] = idx[r]
            THEN s.values[CHOOSE i \in DOMAIN s.index : s.index[i] = idx[r]]
            ELSE 0]

Reindex(s, idx) ==
    IF s.index = idx THEN s.values
    ELSE [r \in DOMAIN idx |->
            IF \E i \in DOMAIN s.index : s.index[i] = idx[r]
            THEN s.values[CHOOSE i \in DOMAIN s.index : s.index[i] = idx[r]]
            ELSE NaN]

\* A concat that lays the columns out in the reverse of the list order.
ConcatReversed(ss) ==
    LET objs == NotNone([k \in DOMAIN ss |-> ss[Len(ss) + 1 - k]])
        idx  == UnionIndexes(objs)
    IN  IF ss = <<>> THEN Raise("ValueError")
        ELSE IF objs = <<>> THEN Raise("ValueError")
        ELSE IF \E k \in DOMAIN objs : ~CanReindex(objs[k], idx)
             THEN Raise("InvalidIndexError")
        ELSE [err |-> "",
              index |-> idx,
              columns |-> [k \in DOMAIN objs |-> objs[k].name],
              data |-> [k \in DOMAIN objs |-> Reindex(objs[k], idx)]]

Concat(ss) ==
    LET objs == NotNone(ss)
        idx  == UnionIndexes(objs)
    IN  IF ss = <<>> THEN Raise("ValueError")           \* No objects to concatenate
        ELSE IF objs = <<>> THEN Raise("ValueError")    \* All objects passed were None
        ELSE IF \E k \in DOMAIN objs : ~CanReindex(objs[k], idx)
             THEN Raise("InvalidIndexError")
        ELSE [err |-> "",
              index |-> idx,
              columns |-> [k \in DOMAIN objs |-> objs[k].name],
              data |-> [k \in DOMAIN objs |-> Reindex(objs[k], idx)]]

\* ------------------------------------------------------- DataFrame.sort_index
\* Rows in ascending index order, rows of equal index in their former order.
RECURSIVE SortPerm(_, _)
SortPerm(idx, left) ==
    IF left = {} THEN <<>>
    ELSE LET r == CHOOSE p \in left :
                    \A q \in left : idx[p] < idx[q] \/ (idx[p] = idx[q] /\ p <= q)
         IN  <<r>> \o SortPerm(idx, left \ {r})

SortIndex(d) ==
    LET perm == SortPerm(d.index, DOMAIN d.index)
    IN  [d EXCEPT !.index = [r \in DOMAIN perm |-> d.index[perm[r]]],
                  !.data = [c \in DOMAIN d.data |->
                               [r \in DOMAIN perm |-> d.data[c][perm[r]]]]]

\* ------------------------------------------------------------ DataFrame.ffill
\* A fill that keeps the first known value instead of the latest one.
FfillColumnFirst(col) ==
    [r \in DOMAIN col |->
        LET known == {q \in 1..r : col[q] # NaN}
        IN  IF known = {} THEN NaN ELSE col[Min(known)]]

FfillColumn(col) ==
    [r \in DOMAIN col |->
        LET known == {q \in 1..r : col[q] # NaN}
        IN  IF known = {} THEN NaN ELSE col[Max(known)]]

\* A fill that also fills backwards, into the rows before the first value.
FfillThenBackfill(d) ==
    [d EXCEPT !.data = [c \in DOMAIN d.data |->
        LET col == FfillColumn(d.data[c])
        IN  [r \in DOMAIN col |->
                LET later == {q \in DOMAIN col : q >= r /\ col[q] # NaN}
                IN  IF later = {} THEN NaN ELSE col[Min(later)]]]]

Ffill(d) == [d EXCEPT !.data = [c \in DOMAIN d.data |-> FfillColumn(d.data[c])]]

\* ------------------------------------------------ the loop that re-adds NaNs
\* s.index.to_series().shift(-1): the timestamp that follows each position.
NextTs(s) == [i \in DOMAIN s.index |->
                 IF i = Len(s.index) THEN NaT ELSE s.index[i + 1]]

\* df.loc[rows, name] = np.nan: every column labelled name.
SetNaN(d, rows, name) ==
    [d EXCEPT !.data = [c \in DOMAIN d.data |->
        IF d.columns[c] = name
        THEN [r \in DOMAIN d.data[c] |-> IF r \in rows THEN NaN ELSE d.data[c][r]]
        ELSE d.data[c]]]

\* A loop body whose gap starts after the null marker instead of at it.
NanRowAfterMarker(d, s, i) ==
    LET idx == s.index[i]
        nxt == NextTs(s)
    IN  IF nxt[i] = NaT
        THEN SetNaN(d, {r \in DOMAIN d.index : d.index[r] > idx}, s.name)
        ELSE SetNaN(d, {r \in DOMAIN d.index :
                           d.index[r] > idx /\ d.index[r] < nxt[i]}, s.name)

\* A loop body whose gap includes the row of the next event.
NanRowThroughNext(d, s, i) ==
    LET idx == s.index[i]
        nxt == NextTs(s)
    IN  IF nxt[i] = NaT
        THEN SetNaN(d, {r \in DOMAIN d.index : d.index[r] >= idx}, s.name)
        ELSE SetNaN(d, {r \in DOMAIN d.index :
                           d.index[r] >= idx /\ d.index[r] <= nxt[i]}, s.name)

\* The body of the loop for position i of s, where s is null.  next_ts[idx]
\* is a label lookup: a scalar when idx is in s.index once, and otherwise
\* the Series of the entries that follow each occurrence of idx, which is
\* never pd.NaT and is compared with df.index element by element.
NanRow(d, s, i) ==
    LET idx  == s.index[i]
        occ  == {j \in DOMAIN s.index : s.index[j] = idx}
        nxt  == NextTs(s)
    IN  IF Cardinality(occ) = 1
        THEN IF nxt[i] = NaT
             THEN SetNaN(d, {r \in DOMAIN d.index : d.index[r] >= idx}, s.name)
             ELSE SetNaN(d, {r \in DOMAIN d.index :
                                d.index[r] >= idx /\ d.index[r] < nxt[i]}, s.name)
        ELSE IF Cardinality(occ) # Len(d.index)
             THEN Raise("ValueError")                   \* Lengths must match
             ELSE LET first == Min(occ)
                  IN  SetNaN(d, {r \in DOMAIN d.index :
                                    /\ d.index[r] >= idx
                                    /\ nxt[first + r - 1] # NaT
                                    /\ d.index[r] < nxt[first + r - 1]}, s.name)

RECURSIVE ApplyNans(_, _, _)
ApplyNans(d, s, i) ==
    IF d.err # "" \/ i > Len(s.index) THEN d
    ELSE IF s.values[i] # NaN THEN ApplyNans(d, s, i + 1)
    ELSE ApplyNans(NanRow(d, s, i), s, i + 1)

\* A loop that re-adds the NaNs of the first series only.
ApplyFirstSeriesOnly(d, ss, k) ==
    IF d.err # "" \/ ss = <<>> THEN d
    ELSE IF ss[1].none THEN Raise("AttributeError")
    ELSE IF NaN \in Range(ss[1].values) THEN ApplyNans(d, ss[1], 1) ELSE d

\* A loop that passes over a None in the list instead of failing on it.
RECURSIVE ApplySeriesSkipNone(_, _, _)
ApplySeriesSkipNone(d, ss, k) ==
    IF d.err # "" \/ k > Len(ss) THEN d
    ELSE IF ss[k].none THEN ApplySeriesSkipNone(d, ss, k + 1)
    ELSE ApplySeriesSkipNone(IF NaN \in Range(ss[k].values)
                             THEN ApplyNans(d, ss[k], 1) ELSE d, ss, k + 1)

RECURSIVE ApplySeries(_, _, _)
ApplySeries(d, ss, k) ==
    IF d.err # "" \/ k > Len(ss) THEN d
    ELSE IF ss[k].none THEN Raise("AttributeError")     \* None has no isnull
    ELSE ApplySeries(IF NaN \in Range(ss[k].values)
                     THEN ApplyNans(d, ss[k], 1) ELSE d, ss, k + 1)

\* df after line 155 of _combine_series.
ConcatSortFfill(ss) ==
    LET c == Concat(ss) IN IF c.err # "" THEN c ELSE Ffill(SortIndex(c))

CombineSeries(ss) == ApplySeries(ConcatSortFfill(ss), ss, 1)

\* A merger that forward-fills the Series it was given in place.
InputsFilledInPlace(ss, d) ==
    [k \in DOMAIN ss |->
        IF ss[k].none THEN ss[k] ELSE [ss[k] EXCEPT !.values = FfillColumn(@)]]

\* The Series objects of the argument after the call that built d: concat,
\* sort_index and ffill each return a new object and the loop writes to df
\* only (df.loc[...] = np.nan); s is only read (isnull, index.to_series).
InputsAfter(ss, d) == ss

\* ------------------------------------------------------------------ config
\* The fields of _Config that Interval reads, with their defaults.
DefaultConfig == [protocol |-> "http", myquery_server |-> "epicsweb.jlab.org",
                  mysampler_path |-> "/myquery/mysampler",
                  interval_path |-> "/myquery/interval",
                  channel_path |-> "/myquery/channel"]

\* f"{config.protocol}://{config.myquery_server}{config.interval_path}": the
\* text is kept as its three parts.
Url(protocol, myquery_server, interval_path) == <<protocol, "://", myquery_server, interval_path>>
UrlOf(cfg) == Url(cfg.protocol, cfg.myquery_server, cfg.interval_path)

\* _lock when no thread holds it, and the configuring thread when it is not
\* in config.set.
NoOwner == "none"
NoSetter == [pc |-> "idle", kwargs |-> <<>>, k |-> 1]

\* ----------------------------------------------------------- IntervalQuery
\* The boolean options of IntervalQuery.__init__ and the web parameter that
\* each one switches on.
BoolOptions == {"data_updates_only", "prior_point", "enums_as_str",
                "unix_timestamps_ms", "adjust_time_to_server_offset", "integrate"}
WebKey(o) ==
    CASE o = "data_updates_only" -> "d"
      [] o = "prior_point" -> "p"
      [] o = "enums_as_str" -> "s"
      [] o = "unix_timestamps_ms" -> "u"
      [] o = "adjust_time_to_server_offset" -> "a"
      [] o = "integrate" -> "i"
\* The named parameters of IntervalQuery.__init__; any other keyword lands
\* in **kwargs and is kept as extra_opts.
NamedOptions == BoolOptions \cup {"channel", "begin", "end", "bin_limit", "sample_type",
                                  "deployment", "frac_time_digits", "sig_figs"}
Get(kw, k, default) == IF k \in DOMAIN kw THEN kw[k] ELSE default
\* dict without one key, and dict with one key set.
Del(kw, k) == [x \in DOMAIN kw \ {k} |-> kw[x]]
Put(kw, k, v) == [x \in DOMAIN kw \cup {k} |-> IF x = k THEN v ELSE kw[x]]

\* IntervalQuery(channel, **kw).  bin_limit, sample_type, frac_time_digits
\* and sig_figs keep their defaults in every modelled call.
IntervalQuery(channel, kw) ==
    [channel |-> channel, begin |-> kw["begin"], end |-> kw["end"],
     deployment |-> Get(kw, "deployment", "ops"),
     data_updates_only |-> Get(kw, "data_updates_only", FALSE),
     prior_point |-> Get(kw, "prior_point", FALSE),
     enums_as_str |-> Get(kw, "enums_as_str", FALSE),
     unix_timestamps_ms |-> Get(kw, "unix_timestamps_ms", FALSE),
     adjust_time_to_server_offset |-> Get(kw, "adjust_time_to_server_offset", FALSE),
     integrate |-> Get(kw, "integrate", FALSE),
     extra_opts |-> [k \in DOMAIN kw \ NamedOptions |-> kw[k]]]

\* datetime.strftime(ts_fmt): the text of d in that format.
Strftime(d, fmt) == [text_of |-> d, fmt |-> fmt]

\* A to_web_params in which a parameter the query sets itself is not
\* overwritten by an extra option of the same key.
ToWebParamsKeepsOwn(q) ==
    LET ts_fmt == "%Y-%m-%dT%H:%M:%S"
        base == [c |-> q.channel, b |-> Strftime(q.begin, ts_fmt),
                 e |-> Strftime(q.end, ts_fmt), m |-> q.deployment,
                 f |-> 0, v |-> 6, l |-> ""]
        on == {WebKey(o) : o \in {x \in BoolOptions : q[x]}}
    IN  [k \in DOMAIN base \cup on \cup DOMAIN q.extra_opts |->
            IF k \in on THEN "on"
            ELSE IF k \in DOMAIN base THEN base[k]
            ELSE q.extra_opts[k]]

\* The warnings one call of to_web_params emits: one that names extra_opts
\* when the query has extra options, none otherwise.
Warnings(q) == IF DOMAIN q.extra_opts # {} THEN <<"extra_opts">> ELSE <<>>

\* IntervalQuery.to_web_params: the fixed parameters, 'on' for every boolean
\* option that is true, and then out.update(extra_opts), which overwrites a
\* parameter of the same key.
ToWebParams(q) ==
    LET ts_fmt == "%Y-%m-%dT%H:%M:%S"
        base == [c |-> q.channel, b |-> Strftime(q.begin, ts_fmt),
                 e |-> Strftime(q.end, ts_fmt), m |-> q.deployment,
                 f |-> 0, v |-> 6, l |-> ""]
        on == {WebKey(o) : o \in {x \in BoolOptions : q[x]}}
    IN  [k \in DOMAIN base \cup on \cup DOMAIN q.extra_opts |->
            IF k \in DOMAIN q.extra_opts THEN q.extra_opts[k]
            ELSE IF k \in on THEN "on"
            ELSE base[k]]

\* ------------------------------------------------------------ the fetcher
\* max_workers when the caller gives none.
DefaultMaxWorkers == 4
\* The status of a successful response.
StatusOk == 200
\* The statuses the modelled server answers with.
Statuses == {StatusOk, 500}

NoneSeries == [name |-> "", none |-> TRUE, index |-> <<>>, values |-> <<>>]
NoResult == [kind |-> "none", exc |-> "", channels |-> {}, data |-> NoFrame,
             disconnects |-> <<>>, metadata |-> <<>>]

\* A response record: timestamp d and either value v or, with x, the
\* disconnect marker text t.
\* The timestamp of a record is the text the server writes for instant t.
IsoText(t) == [iso |-> t]
Value(d, v) == [d |-> IsoText(d), x |-> FALSE, v |-> v, t |-> ""]
Marker(d, t) == [d |-> IsoText(d), x |-> TRUE, v |-> NaN, t |-> t]
\* The response bodies the modelled server answers with: scalar channels
\* (datasize 1) whose returnCount is the number of records.
Body(recs) == [data |-> recs, datatype |-> "DBR_DOUBLE", datasize |-> 1,
               returnCount |-> Len(recs)]
SampleResponses ==
    { Body(<<>>),
      Body(<<Value(2, 7)>>),
      Body(<<Value(1, 7), Marker(2, "<disconnected>"), Value(3, 0)>>) }

\* What a request holds for the body of its response before a 200 arrives.
NoContent == [data |-> <<>>, datatype |-> "None", datasize |-> 1, returnCount |-> 0]

\* The metadata of an Interval that has not run (None).
NoMetadata == [none |-> TRUE]

\* Interval.__init__(query), the url built from config.
NewInterval(q, url) == [query |-> q, url |-> url, data |-> NoneSeries,
                        disconnects |-> NoneSeries, metadata |-> NoMetadata]

\* pd.to_datetime(index): each timestamp text becomes the instant it names.
ToDatetime(ix) == [i \in DOMAIN ix |-> ix[i].iso]

\* A convert_data_to_series that pairs the values with the timestamps in
\* reverse order.
ConvertReversed(values, ts, name, metadata) ==
    MkSeries(name, ToDatetime(ts), [i \in DOMAIN values |-> values[Len(values) + 1 - i]])

\* utils.convert_data_to_series for scalar data (datasize 1): the values
\* (None for a disconnect) indexed by the timestamps, an empty series when
\* returnCount is 0, and the index converted by pd.to_datetime.  Vector data
\* (datasize > 1) is not among the modelled responses.
ConvertDataToSeries(values, ts, name, metadata) ==
    LET data == IF metadata.returnCount = 0 THEN MkSeries(name, ts, <<>>)
                ELSE MkSeries(name, ts, values)
    IN  [data EXCEPT !.index = ToDatetime(data.index)]

\* Interval.run after a response of status 200: one event per record, the
\* disconnect records also in disconnects, the rest of the body in metadata.
RunOk(iv, content) ==
    LET recs == content.data
        marks == SelectSeq(recs, LAMBDA rec : rec.x)
        metadata == Del(content, "data")
    IN  [iv EXCEPT
           !.data = ConvertDataToSeries(
                        [i \in DOMAIN recs |-> IF recs[i].x THEN NaN ELSE recs[i].v],
                        [i \in DOMAIN recs |-> recs[i].d],
                        iv.query.channel, metadata),
           !.disconnects = MkSeries(iv.query.channel,
                                    [i \in DOMAIN marks |-> marks[i].d],
                                    [i \in DOMAIN marks |-> marks[i].t]),
           !.metadata = metadata]

\* out[channel] = interval: a new key goes last, a known key keeps its place.
DictSet(d, key, val) ==
    IF \E k \in DOMAIN d : d[k].key = key
    THEN [k \in DOMAIN d |-> IF d[k].key = key THEN [key |-> key, val |-> val] ELSE d[k]]
    ELSE Append(d, [key |-> key, val |-> val])

\* The options the modelled callers pass besides begin and end: prior_point
\* given or not, a channel keyword or not, and no extra option, an
\* unrecognised one, or one named like the web parameter of prior_point.
Begin == <<2018, 4, 24, 0, 0, 0>>
End == <<2018, 4, 25, 0, 0, 0>>
BaseKwargs == [begin |-> Begin, end |-> End]
PriorPointKwargs == {<<>>, [prior_point |-> TRUE], [prior_point |-> FALSE]}
ChannelKwargs == {<<>>, [channel |-> "B"]}
ExtraKwargs == {<<>>, [foo |-> "1"], [p |-> "off"]}
Merge(f, g) == [x \in DOMAIN f \cup DOMAIN g |-> IF x \in DOMAIN g THEN g[x] ELSE f[x]]
KwargsSamples ==
    {Merge(Merge(Merge(BaseKwargs, a), b), c) :
        a \in PriorPointKwargs, b \in ChannelKwargs, c \in ExtraKwargs}

\* The requests of entry i of the channel list, and the requests not yet
\* answered.
RequestsOf(i) == {r \in DOMAIN requests : requests[r].entry = i}
InFlight == {r \in DOMAIN requests : ~requests[r].answered}
\* How many responses have arrived; a request keeps in nth the how-manieth
\* response its own was.
Answered == Cardinality({r \in DOMAIN requests : requests[r].answered})

Running == {i \in DOMAIN futures : futures[i].state = "RUNNING"}
Pending == {i \in DOMAIN futures : futures[i].state = "PENDING"}
Failed == {i \in DOMAIN futures : futures[i].state = "FINISHED" /\ futures[i].exc # ""}

Init ==
    /\ pvlist \in UNION {[1..n -> Channels] : n \in 0..MaxPvs}
    /\ \/ given = FALSE /\ max_workers = DefaultMaxWorkers
       \/ given = TRUE /\ max_workers \in {1, 2}
    /\ kwargs \in KwargsSamples
    /\ pc = "start"
    /\ queries = <<>> /\ intervals = <<>> /\ out = <<>> /\ futures = <<>>
    /\ not_done = {} /\ result = NoResult /\ requests = <<>>
    /\ series = <<>> /\ filled = NoFrame /\ df = NoFrame /\ mpc = "idle"
    /\ config = DefaultConfig /\ lock = NoOwner /\ setter = NoSetter /\ readers = <<>>
    /\ snapshots = <<>>

\* Lines 111-113: the channel keyword is dropped and prior_point is set.
ForcedKwargs(kw) == Put(IF "channel" \in DOMAIN kw THEN Del(kw, "channel") ELSE kw,
                        "prior_point", TRUE)

\* Lines 111-117: one query per entry of pvlist.
BuildQueries ==
    /\ pc = "start"
    /\ queries' = [i \in DOMAIN pvlist |-> IntervalQuery(pvlist[i], ForcedKwargs(kwargs))]
    /\ pc' = "submit"
    /\ UNCHANGED <<pvlist, max_workers, kwargs, given, requests, intervals, out, futures, not_done, result, mvars, cvars>>

\* Lines 123-125: the next query gets its Interval, stored in out under the
\* channel name, and its run is submitted to the executor.
Submit ==
    /\ pc = "submit"
    /\ Len(futures) < Len(queries)
    /\ LET i == Len(futures) + 1 IN
        /\ intervals' = Append(intervals, NewInterval(queries[i], UrlOf(config)))
        /\ out' = DictSet(out, queries[i].channel, i)
        /\ futures' = Append(futures, [state |-> "PENDING", exc |-> ""])
    /\ UNCHANGED <<pvlist, max_workers, kwargs, given, requests, pc, queries, not_done, result, mvars, cvars>>

\* A caller that goes on to line 130 without waiting for the futures or for
\* the executor.
CallWaitNoBarrier ==
    /\ pc = "submit"
    /\ Len(futures) = Len(queries)
    /\ pc' = "check"
    /\ UNCHANGED <<pvlist, max_workers, kwargs, given, requests, queries, intervals, out,
                   futures, not_done, result, mvars, cvars>>

\* Line 128 is reached when every query is submitted.
CallWait ==
    /\ pc = "submit"
    /\ Len(futures) = Len(queries)
    /\ pc' = "wait"
    /\ UNCHANGED <<pvlist, max_workers, kwargs, given, requests, queries, intervals, out, futures, not_done,
                   result, mvars, cvars>>

\* An executor that starts a thread for every pending run.
StartRunUnbounded(i) ==
    /\ i \in Pending
    /\ \A j \in Pending : i <= j
    /\ futures' = [futures EXCEPT ![i].state = "RUNNING"]
    /\ requests' = Append(requests, [entry |-> i, url |-> intervals[i].url,
                                     params |-> ToWebParams(intervals[i].query),
                                     warnings |-> Warnings(intervals[i].query),
                                     answered |-> FALSE, nth |-> 0,
                                     status |-> NaN, content |-> NoContent])
    /\ UNCHANGED <<pvlist, max_workers, kwargs, given, pc, queries, intervals, out,
                   not_done, result, mvars, cvars>>

\* An executor that keeps one of its max_workers threads back.
StartRunOneWorkerShort(i) ==
    /\ i \in Pending
    /\ \A j \in Pending : i <= j
    /\ Cardinality(Running) < max_workers - 1
    /\ futures' = [futures EXCEPT ![i].state = "RUNNING"]
    /\ requests' = Append(requests, [entry |-> i, url |-> intervals[i].url,
                                     params |-> ToWebParams(intervals[i].query),
                                     warnings |-> Warnings(intervals[i].query),
                                     answered |-> FALSE, nth |-> 0,
                                     status |-> NaN, content |-> NoContent])
    /\ UNCHANGED <<pvlist, max_workers, kwargs, given, pc, queries, intervals, out,
                   not_done, result, mvars, cvars>>

\* A worker thread takes the oldest pending run; the executor has at most
\* max_workers threads.  Interval.run builds the parameters and sends the
\* request (lines 52-53).
StartRun(i) ==
    /\ i \in Pending
    /\ \A j \in Pending : i <= j
    /\ Cardinality(Running) < max_workers
    /\ futures' = [futures EXCEPT ![i].state = "RUNNING"]
    /\ requests' = Append(requests, [entry |-> i, url |-> intervals[i].url,
                                     params |-> ToWebParams(intervals[i].query),
                                     warnings |-> Warnings(intervals[i].query),
                                     answered |-> FALSE, nth |-> 0,
                                     status |-> NaN, content |-> NoContent])
    /\ UNCHANGED <<pvlist, max_workers, kwargs, given, pc, queries, intervals, out,
                   not_done, result, mvars, cvars>>

\* A run that sends its request a second time when the first one fails.
FinishRunRetriesOnce(i) ==
    /\ i \in Running
    /\ \E r \in RequestsOf(i) \cap InFlight :
       \E status \in Statuses : \E content \in SampleResponses :
         IF status # StatusOk /\ Cardinality(RequestsOf(i)) = 1
         THEN /\ requests' = Append([requests EXCEPT ![r].answered = TRUE,
                                                     ![r].status = status,
                                                     ![r].nth = Answered + 1],
                                    [requests[r] EXCEPT !.answered = FALSE])
              /\ UNCHANGED <<futures, intervals>>
         ELSE IF status # StatusOk
         THEN /\ requests' = [requests EXCEPT ![r].answered = TRUE, ![r].status = status,
                                              ![r].nth = Answered + 1]
              /\ futures' = [futures EXCEPT ![i] =
                                [state |-> "FINISHED", exc |-> "RequestException"]]
              /\ UNCHANGED intervals
         ELSE /\ requests' = [requests EXCEPT ![r].answered = TRUE, ![r].status = status,
                                              ![r].nth = Answered + 1,
                                              ![r].content = content]
              /\ futures' = [futures EXCEPT ![i] = [state |-> "FINISHED", exc |-> ""]]
              /\ intervals' = [intervals EXCEPT ![i] = RunOk(intervals[i], content)]
    /\ UNCHANGED <<pvlist, max_workers, kwargs, given, pc, queries, out, not_done,
                   result, mvars, cvars>>

\* A run that parses the body and fills its Interval before it looks at the
\* status.
FinishRunWritesFirst(i) ==
    /\ i \in Running
    /\ \E r \in RequestsOf(i) \cap InFlight :
       \E status \in Statuses : \E content \in SampleResponses :
         /\ requests' = [requests EXCEPT ![r].answered = TRUE, ![r].status = status,
                                         ![r].nth = Answered + 1,
                                         ![r].content = content]
         /\ futures' = [futures EXCEPT ![i] =
                           [state |-> "FINISHED",
                            exc |-> IF status # StatusOk THEN "RequestException" ELSE ""]]
         /\ intervals' = [intervals EXCEPT ![i] = RunOk(intervals[i], content)]
    /\ UNCHANGED <<pvlist, max_workers, kwargs, given, pc, queries, out, not_done,
                   result, mvars, cvars>>

\* A run that stores its Interval in out when it completes, so that the
\* keys of out are in completion order.
FinishRunStoresOut(i) ==
    /\ i \in Running
    /\ \E r \in RequestsOf(i) \cap InFlight :
       \E status \in Statuses : \E content \in SampleResponses :
         IF status # StatusOk
         THEN /\ requests' = [requests EXCEPT ![r].answered = TRUE, ![r].status = status,
                                              ![r].nth = Answered + 1]
              /\ futures' = [futures EXCEPT ![i] =
                                [state |-> "FINISHED", exc |-> "RequestException"]]
              /\ UNCHANGED intervals
         ELSE /\ requests' = [requests EXCEPT ![r].answered = TRUE, ![r].status = status,
                                              ![r].nth = Answered + 1,
                                              ![r].content = content]
              /\ futures' = [futures EXCEPT ![i] = [state |-> "FINISHED", exc |-> ""]]
              /\ intervals' = [intervals EXCEPT ![i] = RunOk(intervals[i], content)]
    /\ out' = Append(SelectSeq(out, LAMBDA e : e.key # queries[i].channel),
                     [key |-> queries[i].channel, val |-> i])
    /\ UNCHANGED <<pvlist, max_workers, kwargs, given, pc, queries, not_done,
                   result, mvars, cvars>>

\* The response arrives (lines 55-86): any status but 200 raises
\* RequestException, which the future keeps; a 200 fills the Interval.
FinishRun(i) ==
    /\ i \in Running
    /\ \E r \in RequestsOf(i) \cap InFlight :
       \E status \in Statuses : \E content \in SampleResponses :
         IF status # StatusOk
         THEN /\ requests' = [requests EXCEPT ![r].answered = TRUE, ![r].status = status,
                                              ![r].nth = Answered + 1]
              /\ futures' = [futures EXCEPT ![i] =
                                [state |-> "FINISHED", exc |-> "RequestException"]]
              /\ UNCHANGED intervals
         ELSE /\ requests' = [requests EXCEPT ![r].answered = TRUE, ![r].status = status,
                                              ![r].nth = Answered + 1,
                                              ![r].content = content]
              /\ futures' = [futures EXCEPT ![i] = [state |-> "FINISHED", exc |-> ""]]
              /\ intervals' = [intervals EXCEPT ![i] = RunOk(intervals[i], content)]
    /\ UNCHANGED <<pvlist, max_workers, kwargs, given, pc, queries, out, not_done,
                   result, mvars, cvars>>

\* concurrent.futures.wait(futures, return_when=ALL_COMPLETED) returns when
\* no future is pending or running; not_done holds the futures that are not
\* finished then.  A future that ended with an exception is finished.
WaitReturns ==
    /\ pc = "wait"
    /\ \A i \in DOMAIN futures : futures[i].state = "FINISHED"
    /\ not_done' = {i \in DOMAIN futures : futures[i].state # "FINISHED"}
    /\ pc' = "shutdown"
    /\ UNCHANGED <<pvlist, max_workers, kwargs, given, requests, queries, intervals, out, futures, result, mvars, cvars>>

\* Leaving the with block: executor.shutdown(wait=True).
Shutdown ==
    /\ pc = "shutdown"
    /\ Running = {} /\ Pending = {}
    /\ pc' = "check"
    /\ UNCHANGED <<pvlist, max_workers, kwargs, given, requests, queries, intervals, out, futures, not_done,
                   result, mvars, cvars>>

\* Lines 130-131.
CheckNotDone ==
    /\ pc = "check"
    /\ IF Cardinality(not_done) > 0
       THEN /\ result' = [NoResult EXCEPT !.kind = "raise", !.exc = "MyqueryException"]
            /\ pc' = "done"
       ELSE /\ pc' = "combine"
            /\ UNCHANGED result
    /\ UNCHANGED <<pvlist, max_workers, kwargs, given, requests, queries, intervals, out, futures, not_done, mvars, cvars>>

\* What lines 133-137 return or raise for the dict o and the Intervals ivs.
Outcome(o, ivs) ==
    LET data == CombineSeries([k \in DOMAIN o |-> ivs[o[k].val].data])
    IN  IF data.err # ""
        THEN [NoResult EXCEPT !.kind = "raise", !.exc = data.err]
        ELSE [kind |-> "return", exc |-> "", channels |-> {}, data |-> data,
              disconnects |-> [k \in DOMAIN o |->
                  [key |-> o[k].key, val |-> ivs[o[k].val].disconnects]],
              metadata |-> [k \in DOMAIN o |->
                  [key |-> o[k].key, val |-> ivs[o[k].val].metadata]]]

\* Lines 133-137: the merge of the data of every Interval in out, and the
\* two dicts.  An exception of _combine_series leaves run_parallel.
CombineAndReturn ==
    /\ pc = "combine"
    /\ LET args == [k \in DOMAIN out |-> intervals[out[k].val].data] IN
        /\ filled' = ConcatSortFfill(args)
        /\ df' = CombineSeries(args)
        /\ series' = InputsAfter(args, df')
    /\ mpc' = IF df'.err = "" THEN "returned" ELSE "raised"
    /\ result' = Outcome(out, intervals)
    /\ pc' = "done"
    /\ UNCHANGED <<pvlist, max_workers, kwargs, given, requests, queries, intervals, out,
                   futures, not_done, cvars>>

Next ==
    \/ BuildQueries
    \/ Submit
    \/ CallWait
    \/ \E i \in DOMAIN futures : StartRun(i)
    \/ \E i \in DOMAIN futures : FinishRun(i)
    \/ WaitReturns
    \/ Shutdown
    \/ CheckNotDone
    \/ CombineAndReturn

Spec == Init /\ [][Next]_vars

\* run_parallel with the scheduling the interpreter and the executor give:
\* the calling thread goes on whenever it can, and a pending run is taken by
\* a worker thread whenever one is free.  Nothing makes a response arrive:
\* requests.get is called without a timeout.  The options do not bear on
\* progress and are the plain ones.
InitLive == Init /\ kwargs = BaseKwargs

CallerStep ==
    \/ BuildQueries
    \/ Submit
    \/ CallWait
    \/ WaitReturns
    \/ Shutdown
    \/ CheckNotDone

\* Lines 133-137 come to their end: the merge is a computation without a
\* wait.  The steps of Next that take the caller from the merge to the end
\* are those of CombineAndReturn.
MergeReturns == pc = "combine" /\ pc' = "done"

WorkerStart == \E i \in DOMAIN futures : StartRun(i)

SpecLive ==
    /\ InitLive /\ [][Next]_vars
    /\ WF_vars(CallerStep) /\ WF_pc(MergeReturns) /\ WF_vars(WorkerStart)

\* ------------------------------------------------------------- merge inputs
\* Channel sequences as the fetcher builds them: timestamps ascending, ties
\* permitted, possibly empty.
Bodies(n) ==
    {b \in [index : [1..n -> 1..MaxT], values : [1..n -> Values \cup {NaN}]] :
        IsSorted(b.index)}

NameLists ==
    UNION {{ns \in [1..n -> Channels] : IsUnique(ns)} : n \in 0..Cardinality(Channels)}

BodiesByLen == [n \in 0..MaxLen |-> Bodies(n)]

\* How many events the k-th of the sequences named ns may hold when the
\* sequences before it hold used events.
Room(ns, k, used) ==
    IF k > Len(ns) THEN 0
    ELSE IF MaxEvents - used < MaxLen THEN MaxEvents - used ELSE MaxLen

\* The two sequences of the unit test, timestamps in seconds after
\* 2018-04-24 00:00:00 and values in thousandths.
ExampleS1 == MkSeries("R123GMES",
    <<0, 40371, 40375, 40376, 40698, 44384, 45165, 91245>>,
    <<7930, 0, 6996, 7930, 7755, NaN, 7755, NaN>>)
ExampleS2 == MkSeries("R121GMES",
    <<0, 23101, 23105, 40699, 44384, 45071, 91245>>,
    <<5911, 0, NaN, 5660, NaN, 5657, 5657>>)
ExampleInput == <<ExampleS1, ExampleS2>>

InitMerge ==
    /\ \/ \E ns \in NameLists :
            \E n1 \in 0..Room(ns, 1, 0) : \E n2 \in 0..Room(ns, 2, n1) :
            \E b1 \in BodiesByLen[n1] : \E b2 \in BodiesByLen[n2] :
                series = [k \in DOMAIN ns |->
                             MkSeries(ns[k], <<b1, b2>>[k].index, <<b1, b2>>[k].values)]
       \/ series = ExampleInput
    /\ filled = NoFrame
    /\ df = NoFrame
    /\ mpc = "call"
    /\ pvlist = <<>> /\ max_workers = DefaultMaxWorkers /\ pc = "idle"
    /\ queries = <<>> /\ intervals = <<>> /\ out = <<>> /\ futures = <<>>
    /\ not_done = {} /\ result = NoResult
    /\ kwargs = BaseKwargs /\ given = FALSE /\ requests = <<>>
    /\ config = DefaultConfig /\ lock = NoOwner /\ setter = NoSetter /\ readers = <<>>
    /\ snapshots = <<>>

\* Interval._combine_series(series)
Combine ==
    /\ mpc = "call"
    /\ filled' = ConcatSortFfill(series)
    /\ df' = CombineSeries(series)
    /\ series' = InputsAfter(series, df')
    /\ mpc' = IF df'.err = "" THEN "returned" ELSE "raised"
    /\ UNCHANGED <<pvars, cvars>>

\* Interval._combine_series(series) called once more with the same list.
CombineAgain ==
    /\ mpc \in {"returned", "raised"}
    /\ filled' = ConcatSortFfill(series)
    /\ df' = CombineSeries(series)
    /\ series' = InputsAfter(series, df')
    /\ mpc' = IF df'.err = "" THEN "returned" ELSE "raised"
    /\ UNCHANGED <<pvars, cvars>>

NextMerge ==
    \/ Combine
    \/ CombineAgain

SpecMerge == InitMerge /\ [][NextMerge]_vars

\* ------------------------------------------- config.set and its readers
\* Threads that construct an Interval while config.set runs.
MaxReaders == 2

\* The values the configuring caller sets the fields to.
NewConfig == [protocol |-> "https", myquery_server |-> "localhost:8080",
              interval_path |-> "/interval"]
ConfigFields == DOMAIN NewConfig
\* The keyword arguments of one config.set call, in the order the caller
\* wrote them: some of the fields, each with its new value.
SetKwargs ==
    {[i \in DOMAIN ks |-> <<ks[i], NewConfig[ks[i]]>>] :
        ks \in {q \in UNION {[1..n -> ConfigFields] : n \in 1..Cardinality(ConfigFields)} :
                   IsUnique(q)}}

\* A thread at the start of Interval.__init__(query) with url None.
NewReader == [pc |-> "protocol", protocol |-> "", myquery_server |-> "", url |-> <<>>]

\* The keys of the dict snapshot returns, in the order their values are
\* read, and a thread at the start of config.snapshot().
SnapshotKeys == <<"protocol", "myquery_server", "mysampler_path", "interval_path",
                  "channel_path">>
NewSnapshot == [pc |-> "call", k |-> 1, dict |-> <<>>]
MaxSnapshots == 1

InitConfig ==
    /\ config = DefaultConfig
    /\ lock = NoOwner
    /\ \E kw \in SetKwargs : setter = [pc |-> "call", kwargs |-> kw, k |-> 1]
    /\ \E n \in 1..MaxReaders : readers = [r \in 1..n |-> NewReader]
    /\ \E n \in 1..MaxSnapshots : snapshots = [t \in 1..n |-> NewSnapshot]
    /\ series = <<>> /\ filled = NoFrame /\ df = NoFrame /\ mpc = "idle"
    /\ pvlist = <<>> /\ max_workers = DefaultMaxWorkers /\ pc = "idle"
    /\ queries = <<>> /\ intervals = <<>> /\ out = <<>> /\ futures = <<>>
    /\ not_done = {} /\ result = NoResult
    /\ kwargs = BaseKwargs /\ given = FALSE /\ requests = <<>>

\* config.set, line 28: with _lock.
SetAcquire ==
    /\ setter.pc = "call"
    /\ lock = NoOwner
    /\ lock' = "setter"
    /\ setter' = [setter EXCEPT !.pc = "loop"]
    /\ UNCHANGED <<config, readers, snapshots, mvars, pvars>>

\* config.set, lines 29-30: setattr for the next keyword.
SetAttr ==
    /\ setter.pc = "loop"
    /\ setter.k <= Len(setter.kwargs)
    /\ config' = [config EXCEPT ![setter.kwargs[setter.k][1]] = setter.kwargs[setter.k][2]]
    /\ setter' = [setter EXCEPT !.k = @ + 1]
    /\ UNCHANGED <<lock, readers, snapshots, mvars, pvars>>

\* config.set: the loop is over and the with block releases _lock.
SetRelease ==
    /\ setter.pc = "loop"
    /\ setter.k > Len(setter.kwargs)
    /\ lock' = NoOwner
    /\ setter' = [setter EXCEPT !.pc = "done"]
    /\ UNCHANGED <<config, readers, snapshots, mvars, pvars>>

\* Interval.__init__, line 39: the f-string reads config.protocol, then
\* config.myquery_server, then config.interval_path, each a plain attribute
\* read that does not take _lock.
ReadProtocol(r) ==
    /\ readers[r].pc = "protocol"
    /\ readers' = [readers EXCEPT ![r].protocol = config.protocol,
                                  ![r].pc = "myquery_server"]
    /\ UNCHANGED <<config, lock, setter, snapshots, mvars, pvars>>

ReadServer(r) ==
    /\ readers[r].pc = "myquery_server"
    /\ readers' = [readers EXCEPT ![r].myquery_server = config.myquery_server,
                                  ![r].pc = "interval_path"]
    /\ UNCHANGED <<config, lock, setter, snapshots, mvars, pvars>>

ReadPath(r) ==
    /\ readers[r].pc = "interval_path"
    /\ readers' = [readers EXCEPT
                      ![r].url = Url(readers[r].protocol, readers[r].myquery_server,
                                     config.interval_path),
                      ![r].pc = "done"]
    /\ UNCHANGED <<config, lock, setter, snapshots, mvars, pvars>>

\* A snapshot that starts reading without taking _lock.
SnapshotAcquireNoLock(t) ==
    /\ snapshots[t].pc = "call"
    /\ snapshots' = [snapshots EXCEPT ![t].pc = "read"]
    /\ UNCHANGED <<config, lock, setter, readers, mvars, pvars>>

\* config.snapshot, line 34: with _lock.  The thread that holds _lock has
\* pc "read"; no other thread acquires it until the block is left.
SnapshotAcquire(t) ==
    /\ snapshots[t].pc = "call"
    /\ lock = NoOwner
    /\ lock' = "snapshot"
    /\ snapshots' = [snapshots EXCEPT ![t].pc = "read"]
    /\ UNCHANGED <<config, setter, readers, mvars, pvars>>

\* config.snapshot, lines 35-41: the dict display reads the next field.
SnapshotRead(t) ==
    /\ snapshots[t].pc = "read"
    /\ snapshots[t].k <= Len(SnapshotKeys)
    /\ snapshots' = [snapshots EXCEPT
                        ![t].dict = Put(@, SnapshotKeys[snapshots[t].k],
                                        config[SnapshotKeys[snapshots[t].k]]),
                        ![t].k = @ + 1]
    /\ UNCHANGED <<config, lock, setter, readers, mvars, pvars>>

\* config.snapshot: the dict is returned and the with block releases _lock.
SnapshotReturn(t) ==
    /\ snapshots[t].pc = "read"
    /\ snapshots[t].k > Len(SnapshotKeys)
    /\ lock' = (IF lock = "snapshot" THEN NoOwner ELSE lock)
    /\ snapshots' = [snapshots EXCEPT ![t].pc = "done"]
    /\ UNCHANGED <<config, setter, readers, mvars, pvars>>

NextConfig ==
    \/ SetAcquire
    \/ SetAttr
    \/ SetRelease
    \/ \E r \in DOMAIN readers : ReadProtocol(r)
    \/ \E r \in DOMAIN readers : ReadServer(r)
    \/ \E r \in DOMAIN readers : ReadPath(r)
    \/ \E t \in DOMAIN snapshots : SnapshotAcquire(t)
    \/ \E t \in DOMAIN snapshots : SnapshotRead(t)
    \/ \E t \in DOMAIN snapshots : SnapshotReturn(t)

SpecConfig == InitConfig /\ [][NextConfig]_vars

\* ------------------------------------------------- reading the merged table
Returned == mpc = "returned"
Rows == DOMAIN df.index
\* The column of the table labelled with the name of series[k].
ColumnOf(d, name) == CHOOSE c \in DOMAIN d.columns : d.columns[c] = name
Cell(d, name, r) == d.data[ColumnOf(d, name)][r]
\* The row read for timestamp t: the last one that t labels.
RowAt(d, t) == Max({r \in DOMAIN d.index : d.index[r] = t})
AllStamps(ss) == UNION {Range(ss[k].index) : k \in DOMAIN ss}
StrictlyAscending(seq) == \A i, j \in DOMAIN seq : i < j => seq[i] < seq[j]
IsNull(s, i) == s.values[i] = NaN
\* t lies in a gap region of s: at or after a null marker and before the
\* next event of s, if there is one.
InGap(s, t) ==
    \E i \in DOMAIN s.index :
        /\ IsNull(s, i)
        /\ s.index[i] <= t
        /\ (i = Len(s.index) \/ t < s.index[i + 1])
\* The latest event of s at or before t, a later arrival winning a tie.
LatestAt(s, t) == Max({i \in DOMAIN s.index : s.index[i] <= t})

\* C1: the row index of the returned table is the set union of the
\* timestamps of all input sequences, ascending, each timestamp once.
C1_UnionIndexOnce ==
    Returned => /\ Range(df.index) = AllStamps(series)
                /\ StrictlyAscending(df.index)

C3_GapPrecedence ==
    Returned =>
        \A k \in DOMAIN series : \A i \in DOMAIN series[k].index : \A r \in Rows :
            LET s == series[k] IN
            (/\ IsNull(s, i) /\ i < Len(s.index)
             /\ s.index[i] <= df.index[r] /\ df.index[r] < s.index[i + 1])
                => Cell(df, s.name, r) = NaN

\* A row inside a bounded gap that forward fill had given an earlier value
\* and the returned table shows as null.
C3_Witness ==
    /\ Returned
    /\ \E k \in DOMAIN series : \E i \in DOMAIN series[k].index : \E r \in Rows :
         LET s == series[k] IN
         /\ IsNull(s, i) /\ i < Len(s.index)
         /\ s.index[i] <= df.index[r] /\ df.index[r] < s.index[i + 1]
         /\ Cell(filled, s.name, r) # NaN
         /\ Cell(df, s.name, r) = NaN

\* C4: when a channel's last event is a null marker at t0, the channel's
\* column is null at every row r >= t0 (the one row at t0 when t0 is the
\* last timestamp of the table).
C4_TrailingGap ==
    Returned =>
        \A k \in DOMAIN series : \A r \in Rows :
            LET s == series[k] IN
            (/\ s.index # <<>> /\ IsNull(s, Len(s.index))
             /\ df.index[r] >= s.index[Len(s.index)])
                => Cell(df, s.name, r) = NaN

\* C5: for any channel and any row strictly before the channel's first
\* event the cell is null.
C5_NoBackFill ==
    Returned =>
        \A k \in DOMAIN series : \A r \in Rows :
            LET s == series[k] IN
            (s.index # <<>> /\ df.index[r] < s.index[1])
                => Cell(df, s.name, r) = NaN

\* A row before a channel's first event, which is a value event.
C5_Witness ==
    /\ Returned
    /\ \E k \in DOMAIN series : \E r \in Rows :
         LET s == series[k] IN
         /\ s.index # <<>> /\ df.index[r] < s.index[1]
         /\ ~IsNull(s, 1)
         /\ Cell(df, s.name, r) = NaN

\* C6: merging the two sequences of the unit test gives the expected table
\* of twelve rows.
ExampleExpected ==
    [err |-> "",
     index |-> <<0, 23101, 23105, 40371, 40375, 40376, 40698, 40699,
                 44384, 45071, 45165, 91245>>,
     columns |-> <<"R123GMES", "R121GMES">>,
     data |-> << <<7930, 7930, 7930, 0, 6996, 7930, 7755, 7755, NaN, NaN, 7755, NaN>>,
                 <<5911, 0, NaN, NaN, NaN, NaN, NaN, 5660, NaN, 5657, 5657, 5657>> >>]

C6_Example == (series = ExampleInput /\ mpc # "call") => df = ExampleExpected

C6_Witness == series = ExampleInput /\ Returned /\ Len(df.index) = 12

\* C7: order invariance.  Merging any permutation of a list of sequences
\* with distinct names gives a table with the same row index and the same
\* cell for every (row, channel name).
Permuted(ss, p) == [k \in DOMAIN ss |-> ss[p[k]]]
Perms(n) == {p \in [1..n -> 1..n] : IsUnique(p)}
SameCells(d, e) ==
    /\ d.err = "" <=> e.err = ""
    /\ d.err = "" =>
         /\ d.index = e.index
         /\ Range(d.columns) = Range(e.columns)
         /\ \A c \in DOMAIN d.columns :
                d.data[c] = e.data[ColumnOf(e, d.columns[c])]

C7_OrderInvariance ==
    mpc # "call" =>
        \A p \in Perms(Len(series)) : SameCells(df, CombineSeries(Permuted(series, p)))

\* Two sequences, both with a null marker and a value, merged into a table.
C7_Witness ==
    /\ Returned
    /\ Len(series) = 2
    /\ series[1].index # series[2].index
    /\ \A k \in DOMAIN series :
         NaN \in Range(series[k].values) /\ Range(series[k].values) # {NaN}

\* The value lists that differ from those of s only in events turned into
\* null markers or null markers turned into value events, at the same
\* timestamps.
NullToggles(s) ==
    {vs \in [DOMAIN s.values -> Values \cup {NaN}] :
        \A i \in DOMAIN vs : vs[i] = s.values[i] \/ vs[i] = NaN \/ s.values[i] = NaN}
\* The merge of the sequences with the values of the k-th replaced by vs.
MergedWith(k, vs) == CombineSeries([series EXCEPT ![k].values = vs])
\* Every column of df but the k-th is a column of the table d, with the
\* same rows.
SameButColumn(d, k) ==
    \A c \in DOMAIN df.data \ {k} :
        d.err = "" /\ d.index = df.index /\ d.data[c] = df.data[c]

\* C28: gaps are independent per channel: for sequences with distinct
\* names, turning any events of one channel into null markers or back,
\* keeping its timestamps, leaves every other channel's column of the merged
\* table unchanged.
C28_GapsIndependent ==
    Returned =>
        \A k \in DOMAIN series : \A vs \in NullToggles(series[k]) :
            SameButColumn(MergedWith(k, vs), k)

\* The same for the inputs in which no channel repeats a timestamp.
C28_WithoutTies ==
    (Returned /\ \A k \in DOMAIN series : IsUnique(series[k].index)) =>
        \A k \in DOMAIN series : \A vs \in NullToggles(series[k]) :
            SameButColumn(MergedWith(k, vs), k)

\* C29: merging a single sequence S with distinct timestamps returns a
\* one-column table whose row index is exactly S's timestamps and whose cell
\* at each timestamp is S's own event: null exactly at S's null markers and
\* S's value at every value event.
C29_SingleSequence ==
    (mpc # "call" /\ Len(series) = 1 /\ IsUnique(series[1].index)) =>
        /\ Returned
        /\ df.columns = <<series[1].name>>
        /\ df.index = series[1].index
        /\ df.data = <<series[1].values>>

\* A single sequence with a null marker between two value events, merged.
C29_Witness ==
    /\ Returned /\ Len(series) = 1
    /\ series[1].index = <<1, 2, 3>>
    /\ series[1].values = <<7, NaN, 0>>
    /\ df.data = <<<<7, NaN, 0>>>>

\* C14: _combine_series raises no error for any well-formed input: any list
\* of channel sequences each sorted ascending by timestamp, ties inside one
\* channel and empty sequences permitted.  (Every input of InitMerge is
\* well-formed.)
C14_NeverRaises ==
    (\A k \in DOMAIN series : IsSorted(series[k].index)) => mpc # "raised"

\* C15: a channel sequence with zero events yields a column that is null in
\* every row, and the row index and every other channel's column are the
\* same as when merging the remaining sequences without it.  (When it is
\* the only sequence nothing remains to merge, and the table has no row.)
Without(seq, k) == [j \in 1..(Len(seq) - 1) |-> IF j < k THEN seq[j] ELSE seq[j + 1]]
DropColumn(d, c) == [d EXCEPT !.columns = Without(d.columns, c),
                              !.data = Without(d.data, c)]
C15_EmptySequence ==
    Returned =>
        \A k \in DOMAIN series :
            series[k].index = <<>> =>
                /\ \A r \in Rows : Cell(df, series[k].name, r) = NaN
                /\ Len(series) = 1 => df.index = <<>>
                /\ Len(series) > 1 =>
                      DropColumn(df, ColumnOf(df, series[k].name))
                          = CombineSeries(Without(series, k))

\* An empty sequence merged with one that has a value and a null marker.
C15_Witness ==
    /\ Returned
    /\ \E k, j \in DOMAIN series :
         /\ series[k].index = <<>>
         /\ Len(series[j].index) >= 2
         /\ NaN \in Range(series[j].values) /\ Range(series[j].values) # {NaN}
         /\ Len(df.index) >= 2
         /\ \A r \in Rows : Cell(df, series[k].name, r) = NaN

\* C21: the merged table has exactly one column per input sequence,
\* labelled with that sequence's channel name, and the columns appear in
\* the order of the input list.
C21_ColumnsInInputOrder ==
    Returned =>
        /\ df.columns = [k \in DOMAIN series |-> series[k].name]
        /\ DOMAIN df.data = DOMAIN series
        /\ \A c \in DOMAIN df.data : Len(df.data[c]) = Len(df.index)

\* A table of two columns whose list order is not the alphabetical one,
\* with rows.
C21_Witness ==
    /\ Returned
    /\ Len(series) = 2
    /\ df.columns \in {<<"B", "A">>, <<"R123GMES", "R121GMES">>}
    /\ Len(df.index) >= 2

Done == pc = "done"
FailedChannels == {queries[i].channel : i \in Failed}

\* C8: when a per-channel request fails, run_parallel raises
\* MyqueryException, and the error identifies the channels that failed.
C8_FailureRaisesAggregate ==
    (Done /\ Failed # {}) =>
        /\ result.kind = "raise"
        /\ result.exc = "MyqueryException"
        /\ FailedChannels \subseteq result.channels

\* C9: run_parallel never returns a (table, disconnects, metadata) result
\* when at least one per-channel request failed.
C9_NoResultAfterFailure == result.kind = "return" => Failed = {}

\* C10: the merge step is entered only when every per-channel fetch has
\* succeeded.
C10_MergeOnlyAfterSuccess == (pc = "combine" \/ mpc # "idle") => Failed = {}

\* C11: barrier.  Neither the merge step nor the raising of a failure
\* happens before every dispatched fetch is finished or failed: once
\* run_parallel is past the with block (checking not_done, merging, or
\* done with a result or an exception) every query has been dispatched, every
\* future is finished and no request is in flight.
C11_Barrier ==
    pc \in {"check", "combine", "done"} =>
        /\ Len(futures) = Len(queries)
        /\ \A i \in DOMAIN futures : futures[i].state = "FINISHED"
        /\ InFlight = {}

\* run_parallel has raised after two fetches, one of which failed.
C11_Witness ==
    /\ Done /\ result.kind = "raise"
    /\ Len(futures) = 2 /\ Failed # {}
    /\ \A i \in DOMAIN futures : futures[i].state = "FINISHED"

\* C16: at no time during run_parallel are more than max_workers
\* per-channel requests in flight, and max_workers is 4 when the caller does
\* not give it.
C16_BoundedConcurrency ==
    /\ Cardinality(InFlight) <= max_workers
    /\ Cardinality(Running) <= max_workers
    /\ ~given => max_workers = 4

\* As many requests in flight as max_workers allows, and a submitted run
\* that has to wait for a worker.
C16_Witness ==
    /\ Cardinality(InFlight) = max_workers
    /\ Pending # {}

\* The response that entry i of the channel list got.
Answer(i) == requests[CHOOSE r \in RequestsOf(i) : TRUE]
\* The Intervals and the dict of a run in which the fetches complete one
\* after the other, in the order of the channel list.
InOrderIntervals ==
    [i \in DOMAIN pvlist |->
        IF Answer(i).status = StatusOk
        THEN RunOk(NewInterval(queries[i], UrlOf(config)), Answer(i).content)
        ELSE NewInterval(queries[i], UrlOf(config))]
RECURSIVE InOrderOut(_)
InOrderOut(n) == IF n = 0 THEN <<>> ELSE DictSet(InOrderOut(n - 1), pvlist[n], n)
\* The names of the channel list, each at its first place.
RECURSIVE FirstOccurrences(_)
FirstOccurrences(seq) ==
    IF seq = <<>> THEN <<>>
    ELSE LET front == FirstOccurrences(SubSeq(seq, 1, Len(seq) - 1))
         IN  IF seq[Len(seq)] \in Range(front) THEN front ELSE Append(front, seq[Len(seq)])

\* C17: for a fixed channel list and fixed per-channel responses, what
\* run_parallel returns (table, disconnects, metadata) is the same for
\* every order in which the fetches complete: it is what the in-order run
\* gives for the responses received.  Column order follows the channel list.
C17_CompletionOrder ==
    Done =>
        /\ result = Outcome(InOrderOut(Len(pvlist)), InOrderIntervals)
        /\ result.kind = "return" =>
              /\ result.data.columns = FirstOccurrences(pvlist)
              /\ [k \in DOMAIN result.disconnects |-> result.disconnects[k].key]
                    = FirstOccurrences(pvlist)
              /\ [k \in DOMAIN result.metadata |-> result.metadata[k].key]
                    = FirstOccurrences(pvlist)

\* A result returned for two channels whose fetches completed in the
\* reverse of the order of the channel list, with different responses.
C17_Witness ==
    /\ Done /\ result.kind = "return"
    /\ Len(pvlist) = 2 /\ pvlist[1] # pvlist[2]
    /\ Len(requests) = 2
    /\ Answer(2).nth < Answer(1).nth
    /\ Answer(1).content # Answer(2).content
    /\ Len(result.data.index) >= 2

\* C18: run_parallel issues exactly one HTTP request per entry of the
\* channel list, and a request that fails is never issued again: no entry
\* ever has two requests, every request belongs to an entry, and when
\* run_parallel is done every entry has its one request.
C18_OneRequestPerEntry ==
    /\ \A r \in DOMAIN requests : requests[r].entry \in DOMAIN pvlist
    /\ \A i \in DOMAIN pvlist : Cardinality(RequestsOf(i)) <= 1
    /\ pc \in {"check", "combine", "done"} =>
          \A i \in DOMAIN pvlist : Cardinality(RequestsOf(i)) = 1

\* run_parallel is done after two requests, one of which failed.
C18_Witness ==
    /\ Done
    /\ Len(pvlist) = 2 /\ Len(requests) = 2
    /\ \E r \in DOMAIN requests : requests[r].answered /\ requests[r].status # StatusOk

\* C19: during a run_parallel call there is never more than one request in
\* flight for the same channel name, for every channel list the caller
\* passes, and each request names exactly one channel, the one of its entry.
C19_OneInFlightPerChannel ==
    /\ \A r \in DOMAIN requests : requests[r].params["c"] = pvlist[requests[r].entry]
    /\ \A r, q \in InFlight :
          requests[r].params["c"] = requests[q].params["c"] => r = q

\* C22: if every dispatched fetch eventually reaches a terminal state (no
\* fetch stays running for ever), run_parallel eventually returns or raises;
\* if some fetch never completes, run_parallel never returns or raises.
C22_TerminatesIffFetchesDo ==
    /\ ([]<>(Running = {})) => <>Done
    /\ (<>[](Running # {})) => [](~Done)

\* The caller is held in wait by the last fetch, the other one being over.
C22_Witness ==
    /\ pc = "wait"
    /\ Cardinality(Running) = 1
    /\ \E i \in DOMAIN futures : futures[i].state = "FINISHED"

MaxCalls == 2
\* Every combination of the six boolean options, given explicitly, with the
\* sample extra options.
OptionKwargs ==
    {Merge(Merge(BaseKwargs, [o \in BoolOptions |-> o \in on]), x) :
        on \in SUBSET BoolOptions, x \in ExtraKwargs}

InitQuery ==
    /\ \E kw \in OptionKwargs : kwargs = kw
    /\ queries = <<>> /\ requests = <<>>
    /\ series = <<>> /\ filled = NoFrame /\ df = NoFrame /\ mpc = "idle"
    /\ pvlist = <<>> /\ max_workers = DefaultMaxWorkers /\ pc = "idle"
    /\ intervals = <<>> /\ out = <<>> /\ futures = <<>>
    /\ not_done = {} /\ result = NoResult /\ given = FALSE
    /\ config = DefaultConfig /\ lock = NoOwner
    /\ setter = NoSetter /\ readers = <<>> /\ snapshots = <<>>

\* IntervalQuery(channel, begin, end, **options).
NewQuery ==
    /\ queries = <<>>
    /\ queries' = <<IntervalQuery("A", kwargs)>>
    /\ UNCHANGED <<mvars, cvars, pvlist, max_workers, pc, intervals, out, futures,
                   not_done, result, kwargs, given, requests>>

\* query.to_web_params(): the parameters returned and the warnings emitted.
CallToWebParams ==
    /\ queries # <<>>
    /\ Len(requests) < MaxCalls
    /\ requests' = Append(requests, [params |-> ToWebParams(queries[1]),
                                     warnings |-> Warnings(queries[1])])
    /\ UNCHANGED <<mvars, cvars, pvlist, max_workers, pc, queries, intervals, out,
                   futures, not_done, result, kwargs, given>>

NextQuery == NewQuery \/ CallToWebParams

SpecQuery == InitQuery /\ [][NextQuery]_vars

\* C24: for each boolean option of IntervalQuery, the parameters of
\* to_web_params hold the option's key with the value 'on' if and only if
\* the option is true, and the key is absent when the option is false.
C24_BooleanFlags ==
    \A r \in DOMAIN requests : \A o \in BoolOptions :
        LET params == requests[r].params IN
        /\ (WebKey(o) \in DOMAIN params /\ params[WebKey(o)] = "on") <=> queries[1][o]
        /\ ~queries[1][o] => WebKey(o) \notin DOMAIN params

\* The same, for the queries none of whose extra options has the key of a
\* boolean option.
C24_WithoutCollidingExtras ==
    \A r \in DOMAIN requests :
        (DOMAIN queries[1].extra_opts \cap {WebKey(o) : o \in BoolOptions} = {})
            => \A o \in BoolOptions :
                LET params == requests[r].params IN
                /\ (WebKey(o) \in DOMAIN params /\ params[WebKey(o)] = "on") <=> queries[1][o]
                /\ ~queries[1][o] => WebKey(o) \notin DOMAIN params

\* The entries of the channel list whose fetch got a 200 response and has
\* written its Interval, and the positions of the null events of a series.
Fetched == {i \in DOMAIN futures : futures[i].state = "FINISHED" /\ futures[i].exc = ""}
NullPositions(vs) == SelectSeq([i \in DOMAIN vs |-> i], LAMBDA i : vs[i] = NaN)

C27_FailedFetchWritesNothing ==
    [][\A r \in DOMAIN requests :
          (~requests[r].answered /\ requests'[r].answered
              /\ requests'[r].status # StatusOk)
          => /\ futures'[requests[r].entry].exc = "RequestException"
             /\ intervals' = intervals
             /\ intervals[requests[r].entry].data = NoneSeries
             /\ intervals[requests[r].entry].disconnects = NoneSeries
             /\ intervals[requests[r].entry].metadata = NoMetadata]_vars

\* One fetch of the batch has failed and left its Interval empty, and the
\* Interval of another entry holds the events of its response.
C27_Witness ==
    \E i \in Failed : \E j \in Fetched :
        /\ intervals[i].data = NoneSeries
        /\ ~intervals[j].data.none /\ Len(intervals[j].data.index) > 0

\* The keys of a returned dict, in order.
Keys(d) == [k \in DOMAIN d |-> d[k].key]

\* C30: whenever run_parallel returns, the columns of the returned table,
\* the keys of the returned disconnects map and the keys of the returned
\* metadata map are each the distinct channel names of the channel list,
\* and every entry is the result of a completed successful fetch, none an
\* unset (None) placeholder.
C30_ReturnedEntriesFetched ==
    result.kind = "return" =>
        /\ Range(result.data.columns) = Range(pvlist)
        /\ IsUnique(result.data.columns)
        /\ Range(Keys(result.disconnects)) = Range(pvlist)
        /\ IsUnique(Keys(result.disconnects))
        /\ Range(Keys(result.metadata)) = Range(pvlist)
        /\ IsUnique(Keys(result.metadata))
        /\ \A k \in DOMAIN out :
              /\ out[k].val \in Fetched
              /\ ~intervals[out[k].val].data.none
              /\ ~result.disconnects[k].val.none
              /\ result.metadata[k].val # NoMetadata

\* A return for a list of two channels.
C30_Witness ==
    /\ result.kind = "return"
    /\ Cardinality(Range(pvlist)) = 2
    /\ Len(result.data.columns) = 2

\* C13: every request issued by run_parallel carries the prior-point flag,
\* web parameter p = 'on', for every combination of options the caller
\* passes, prior_point=False and extra passthrough options included.
C13_PriorPointOnEveryRequest ==
    \A r \in DOMAIN requests :
        /\ "p" \in DOMAIN requests[r].params
        /\ requests[r].params["p"] = "on"

\* ------------------------------------------------------ reading the config
\* The configuration after the whole of the config.set call.
ConfigAfterSet ==
    [f \in DOMAIN DefaultConfig |->
        IF \E i \in DOMAIN setter.kwargs : setter.kwargs[i][1] = f
        THEN NewConfig[f] ELSE DefaultConfig[f]]

\* C12: a fetcher that builds its url from config while another thread runs
\* config.set with several fields gets the url of the configuration
\* entirely before or entirely after that set, never a mix.
C12_NoTornUrl ==
    \A r \in DOMAIN readers :
        readers[r].pc = "done" =>
            readers[r].url \in {UrlOf(DefaultConfig), UrlOf(ConfigAfterSet)}

\* C25: config.snapshot() running concurrently with a config.set(...) of
\* several fields returns a map equal to the whole configuration either
\* before or after that set, never a mix of old and new fields.
C25_SnapshotNotTorn ==
    \A t \in DOMAIN snapshots :
        snapshots[t].pc = "done" =>
            snapshots[t].dict \in {DefaultConfig, ConfigAfterSet}

\* A snapshot that returned the configuration after a config.set of three
\* fields.
C25_Witness ==
    /\ Len(setter.kwargs) = 3
    /\ setter.pc = "done"
    /\ \E t \in DOMAIN snapshots :
         snapshots[t].pc = "done" /\ snapshots[t].dict = ConfigAfterSet

====
